---- MODULE Spec2Model ----
(***************************************************************************)
(* Model of src/001/satellite_detection.py: the tile download-and-stitch   *)
(* pipeline (get_tiles_for_bbox, download_tile, stitch_tiles,              *)
(* download_tiles_pipeline).                                               *)
(*                                                                         *)
(* Geographic frame.  Longitude and latitude are kept in fixed point, in   *)
(* the web-mercator-projected frame in which every slippy-map tile is a    *)
(* square: longitude u in 0..World grows eastwards, latitude v in 0..World *)
(* grows northwards, and tile (x, y, z) spans World / 2^z units a side,    *)
(* with row 0 at the north edge.                                           *)
(*                                                                         *)
(* Images.  A pixel buffer is represented by its size and by its pixels at *)
(* the sample coordinates SamplePx (the first and last pixel of each half  *)
(* of the stitched canvas, on each axis).                                  *)
(*                                                                         *)
(* Specifications.  Spec and FairSpec are runs of download_tiles_pipeline  *)
(* over the input collections of AreaCollections; SpecStitch is            *)
(* stitch_tiles applied to any four optional images.                       *)
(***************************************************************************)
EXTENDS Integers, Sequences, FiniteSets, TLC

\* ------------------------------------------------------------------ bounds
MaxZoom == 1
MaxPolys == 2
\* Tiles of a run; the runs of at most MaxFullTiles tiles are explored under
\* every pattern of failed fetches, the larger ones with one failed fetch at
\* any place.
MaxTiles == 6
MaxFullTiles == 1
MaxSources == 2
MaxPermuted == 4

\* --------------------------------------------------------------- constants
TILE_SIZE == 256
STITCHED_SIZE == 512
Base10 == 10
ProgressEvery == 5

RECURSIVE Pow2(_)
Pow2(n) == IF n <= 0 THEN 1 ELSE 2 * Pow2(n - 1)

World == Pow2(MaxZoom + 1)

Zooms == 0..MaxZoom

\* ------------------------------------------------------------- tile address
Tile(x, y, z) == [x |-> x, y |-> y, z |-> z]

NoTile == Tile(-1, -1, -1)

\* ------------------------------------------------- mercantile: tiles, bounds
TileSpan(z) == World \div Pow2(z)

\* mercantile.tile: the column of longitude u, clamped to the grid.
TileCol(u, z) ==
    IF u <= 0 THEN 0
    ELSE IF u >= World THEN Pow2(z) - 1
    ELSE u \div TileSpan(z)

\* mercantile.tile: the row of latitude v (row 0 is the north edge).
TileRow(v, z) ==
    IF World - v <= 0 THEN 0
    ELSE IF World - v >= World THEN Pow2(z) - 1
    ELSE (World - v) \div TileSpan(z)

\* The column before the one of longitude e.
TileColBelow_exclusive(e, z) == TileCol(e, z) - 1

\* Column of longitude e - LL_EPSILON, row of latitude s + LL_EPSILON, for an
\* epsilon below the frame's resolution.
TileColBelow(e, z) ==
    IF e <= 0 THEN 0
    ELSE IF e > World THEN Pow2(z) - 1
    ELSE (e - 1) \div TileSpan(z)

TileRowAbove(s, z) ==
    IF s >= World THEN 0
    ELSE IF s < 0 THEN Pow2(z) - 1
    ELSE (World - s - 1) \div TileSpan(z)

RECURSIVE RowRun(_, _, _, _)
RowRun(x, y, ymax, z) ==
    IF y > ymax THEN <<>> ELSE <<Tile(x, y, z)>> \o RowRun(x, y + 1, ymax, z)

RECURSIVE ColRun(_, _, _, _, _)
ColRun(x, xmax, ymin, ymax, z) ==
    IF x > xmax THEN <<>>
    ELSE RowRun(x, ymin, ymax, z) \o ColRun(x + 1, xmax, ymin, ymax, z)

\* bounds = (min_lon, min_lat, max_lon, max_lat)
get_tiles_for_bbox(bounds, zoom) ==
    LET ulx == TileCol(bounds[1], zoom)
        uly == TileRow(bounds[4], zoom)
        lrx == TileColBelow(bounds[3], zoom)
        lry == TileRowAbove(bounds[2], zoom)
    IN  ColRun(ulx, lrx, uly, lry, zoom)

\* The bounds of the two-by-two block of tiles that starts at t.
TileBounds_block(t) ==
    [west  |-> t.x * TileSpan(t.z),
     south |-> World - (t.y + 2) * TileSpan(t.z),
     east  |-> (t.x + 2) * TileSpan(t.z),
     north |-> World - t.y * TileSpan(t.z)]

\* mercantile.bounds(tile), then shapely box(west, south, east, north).
TileBounds(t) ==
    [west  |-> t.x * TileSpan(t.z),
     south |-> World - (t.y + 1) * TileSpan(t.z),
     east  |-> (t.x + 1) * TileSpan(t.z),
     north |-> World - t.y * TileSpan(t.z)]

\* ------------------------------------------------------------- URL template
Lit(s) == [kind |-> "lit", text |-> s]
Field(s) == [kind |-> "field", text |-> s]

DEFAULT_TILE_URL ==
    <<Lit("https://services.arcgisonline.com/arcgis/rest/services/World_Imagery/MapServer/tile/"),
      Field("z"), Lit("/"), Field("y"), Lit("/"), Field("x")>>

\* A template naming a field that format() is given no value for.
UnknownFieldTemplate ==
    <<Lit("https://tiles.example/"), Field("z"), Lit("/"), Field("y"), Lit("/"), Field("q")>>

Templates == {DEFAULT_TILE_URL, UnknownFieldTemplate}

Digit(d) == <<"0", "1", "2", "3", "4", "5", "6", "7", "8", "9">>[d + 1]

\* str(n) of a non-negative integer, as its sequence of digits.
RECURSIVE ToDec(_)
ToDec(n) ==
    IF n < Base10 THEN <<Digit(n)>>
    ELSE ToDec(n \div Base10) \o <<Digit(n % Base10)>>

FormatFields == {"x", "y", "z"}

\* str.format(x=, y=, z=) raises KeyError on any other field.
FormatRaises(template) ==
    \E i \in 1..Len(template) :
        template[i].kind = "field" /\ template[i].text \notin FormatFields

FieldValue(name, t) ==
    IF name = "x" THEN t.x ELSE IF name = "y" THEN t.y ELSE t.z

RECURSIVE FormatUrl(_, _)
FormatUrl(template, t) ==
    IF template = <<>> THEN <<>>
    ELSE (IF Head(template).kind = "lit"
             THEN <<Head(template).text>>
             ELSE ToDec(FieldValue(Head(template).text, t)))
         \o FormatUrl(Tail(template), t)

\* ------------------------------------------------------------------- images
NoneImage == [present |-> FALSE, w |-> 0, h |-> 0, src |-> NoTile]

\* The tile image the server holds for tile t.
TileImage(t) == [present |-> TRUE, w |-> TILE_SIZE, h |-> TILE_SIZE, src |-> t]

BlankPixel == [src |-> NoTile, u |-> 0, v |-> 0]

\* Pixel (u, v) of an image.
ImagePixel(img, u, v) == [src |-> img.src, u |-> u, v |-> v]

SamplePx == {0, TILE_SIZE - 1, TILE_SIZE, STITCHED_SIZE - 1}

\* Image.new("RGB", (w, h)): zero-filled.
NewImage(w, h) ==
    [w |-> w, h |-> h,
     px |-> [p \in {q \in SamplePx \X SamplePx : q[1] < w /\ q[2] < h} |-> BlankPixel]]

\* A paste that fills the canvas from (x, y) on, whatever the image's size.
Paste_unbounded(canvas, img, x, y) ==
    [canvas EXCEPT !.px =
        [p \in DOMAIN canvas.px |->
            IF x <= p[1] /\ y <= p[2]
            THEN ImagePixel(img, p[1] - x, p[2] - y)
            ELSE canvas.px[p]]]

\* Image.paste(img, (x, y)): the region of the canvas that img covers takes
\* img's pixels; what falls outside the canvas is clipped.
Paste(canvas, img, x, y) ==
    [canvas EXCEPT !.px =
        [p \in DOMAIN canvas.px |->
            IF /\ x <= p[1] /\ p[1] < x + img.w
               /\ y <= p[2] /\ p[2] < y + img.h
            THEN ImagePixel(img, p[1] - x, p[2] - y)
            ELSE canvas.px[p]]]

\* Rows and columns exchanged.
PasteOffset_transposed(i) == <<(i \div 2) * TILE_SIZE, (i % 2) * TILE_SIZE>>

PasteOffset(i) == <<(i % 2) * TILE_SIZE, (i \div 2) * TILE_SIZE>>

\* The loop body of stitch_tiles for index i (0-based).
StitchOne(canvas, i, tile) ==
    IF tile.present
    THEN Paste(canvas, tile, PasteOffset(i)[1], PasteOffset(i)[2])
    ELSE canvas

RECURSIVE StitchFrom(_, _, _)
StitchFrom(canvas, i, tiles) ==
    IF i >= Len(tiles) THEN canvas
    ELSE StitchFrom(StitchOne(canvas, i, tiles[i + 1]), i + 1, tiles)

\* stitch_tiles sizing the canvas by what it was given.
stitch_tiles_fitted(tiles) ==
    IF \A i \in 1..Len(tiles) : ~tiles[i].present
    THEN NewImage(TILE_SIZE, TILE_SIZE)
    ELSE StitchFrom(NewImage(STITCHED_SIZE, STITCHED_SIZE), 0, tiles)

stitch_tiles(tiles) == StitchFrom(NewImage(STITCHED_SIZE, STITCHED_SIZE), 0, tiles)

\* ------------------------------------------------------------ download_tile
\* What the single network request can come to: status 200 with a payload
\* that decodes ("ok"), any status but 200 ("http_error"), an exception out of
\* requests.get, as on a timeout or a connection failure ("timeout"), or
\* status 200 with a payload that Image.open rejects ("bad_payload").
NetOutcomes == {"ok", "http_error", "timeout", "bad_payload"}

\* download_tile logging nothing when the payload does not decode.
download_tile_silent_decode(tile, template, net) ==
    IF FormatRaises(template)
    THEN [raised |-> "KeyError", result |-> NoneImage, nwarn |-> 0]
    ELSE IF net = "ok"
    THEN [raised |-> "none", result |-> TileImage(tile), nwarn |-> 0]
    ELSE [raised |-> "none", result |-> NoneImage,
          nwarn |-> IF net = "bad_payload" THEN 0 ELSE 1]

\* download_tile with requests.get outside the try block.
download_tile_unguarded(tile, template, net) ==
    IF FormatRaises(template)
    THEN [raised |-> "KeyError", result |-> NoneImage, nwarn |-> 0]
    ELSE IF net = "ok"
    THEN [raised |-> "none", result |-> TileImage(tile), nwarn |-> 0]
    ELSE IF net = "timeout"
    THEN [raised |-> "Timeout", result |-> NoneImage, nwarn |-> 0]
    ELSE [raised |-> "none", result |-> NoneImage, nwarn |-> 1]

\* download_tile(tile, tile_url) when the network request comes to net:
\* raised is the exception that leaves the function ("none" when it returns),
\* result the value returned, nwarn the number of logger.warning calls.
\* The url is formatted before the try block; Image.open is taken to decode
\* the payload in full, so that an image it returns can be pasted.
download_tile(tile, template, net) ==
    IF FormatRaises(template)
    THEN [raised |-> "KeyError", result |-> NoneImage, nwarn |-> 0]
    ELSE IF net = "ok"
    THEN [raised |-> "none", result |-> TileImage(tile), nwarn |-> 0]
    ELSE IF net = "http_error"
    THEN [raised |-> "none", result |-> NoneImage, nwarn |-> 1]
    ELSE [raised |-> "none", result |-> NoneImage, nwarn |-> 1]

\* --------------------------------------------------------------- the inputs
\* Bounding boxes (min_lon, min_lat, max_lon, max_lat) of the input polygons.
Boxes ==
    {<<0, 3, 3, 4>>,      \* inside one tile, two tiles wide at the deepest zoom
     <<0, 0, 4, 4>>,      \* two tiles a side at the deepest zoom
     <<2, 2, 2, 2>>}      \* a point on a tile corner: zero area

AreaCollections == UNION {[1..n -> Boxes] : n \in 1..MaxPolys}

RECURSIVE SumLen(_)
\* Every tile counted once, however many lists hold it.
SumLen_distinct(seqs) ==
    Cardinality(UNION {{seqs[i][k] : k \in 1..Len(seqs[i])} : i \in 1..Len(seqs)})

SumLen(seqs) == IF seqs = <<>> THEN 0 ELSE Len(Head(seqs)) + SumLen(Tail(seqs))

RECURSIVE Flatten(_)
\* The last list first.
Flatten_last_first(seqs) ==
    IF seqs = <<>> THEN <<>> ELSE Flatten(Tail(seqs)) \o Head(seqs)

Flatten(seqs) == IF seqs = <<>> THEN <<>> ELSE Head(seqs) \o Flatten(Tail(seqs))

\* gdf["tiles"]: one tile sequence per polygon.
TilesOf(areas, z) == [i \in 1..Len(areas) |-> get_tiles_for_bbox(areas[i], z)]

\* -------------------------------------------------------- validate_geojson
\* A feature of the input file: its geometry type and the bounds of its
\* geometry, in the coordinates of the file.
Feature(type, bounds) == [type |-> type, bounds |-> bounds]

\* The file at geojson_path: whether it exists, whether gpd.read_file reads
\* it, the reference frame it declares ("none" when it declares none) and its
\* features.
GeoFile(crs, features) ==
    [exists |-> TRUE, readable |-> TRUE, crs |-> crs, features |-> features]

MissingFile ==
    [exists |-> FALSE, readable |-> FALSE, crs |-> "none", features |-> <<>>]

UnreadableFile ==
    [exists |-> TRUE, readable |-> FALSE, crs |-> "none", features |-> <<>>]

PolygonTypes == {"Polygon", "MultiPolygon"}

\* The projected frame counts two units to one unit of EPSG:4326.
Projected(b) == <<2 * b[1], 2 * b[2], 2 * b[3], 2 * b[4]>>

ToWgs84(b) == <<b[1] \div 2, b[2] \div 2, b[3] \div 2, b[4] \div 2>>

\* Setting the frame without converting the coordinates.
Normalise_relabel(crs, features) == features

\* gdf.set_crs(epsg=4326) labels the frame and leaves the coordinates;
\* gdf.to_crs(epsg=4326) converts them.
Normalise(crs, features) ==
    IF crs \in {"none", "EPSG:4326"} THEN features
    ELSE [i \in 1..Len(features) |->
            Feature(features[i].type, ToWgs84(features[i].bounds))]

\* What validate_geojson comes to: exit is the status of sys.exit (0 when
\* the function returns), error the logger.error message, nwarn the number
\* of warnings logged, reprojected whether to_crs was called, crs and gdf the
\* frame returned.
Rejected(message, nwarn, reprojected) ==
    [exit |-> 1, error |-> message, nwarn |-> nwarn, reprojected |-> reprojected,
     crs |-> "none", gdf |-> <<>>]

Accepted(nwarn, reprojected, gdf) ==
    [exit |-> 0, error |-> "none", nwarn |-> nwarn, reprojected |-> reprojected,
     crs |-> "EPSG:4326", gdf |-> gdf]

NotValidated ==
    [exit |-> 0, error |-> "not called", nwarn |-> 0, reprojected |-> FALSE,
     crs |-> "none", gdf |-> <<>>]

\* Accepting any geometry type.
validate_geojson_any_type(file) ==
    IF ~file.exists THEN Rejected("GeoJSON file not found", 0, FALSE)
    ELSE IF ~file.readable THEN Rejected("Failed to read GeoJSON file", 0, FALSE)
    ELSE IF Len(file.features) = 0
    THEN Rejected("GeoJSON file contains no features", 0, FALSE)
    ELSE Accepted(IF file.crs = "none" THEN 1 ELSE 0,
                  file.crs \notin {"none", "EPSG:4326"},
                  Normalise(file.crs, file.features))

\* validate_geojson(geojson_path)
validate_geojson(file) ==
    IF ~file.exists THEN Rejected("GeoJSON file not found", 0, FALSE)
    ELSE IF ~file.readable THEN Rejected("Failed to read GeoJSON file", 0, FALSE)
    ELSE IF Len(file.features) = 0
    THEN Rejected("GeoJSON file contains no features", 0, FALSE)
    ELSE LET gdf == Normalise(file.crs, file.features)
             nwarn == IF file.crs = "none" THEN 1 ELSE 0
             reprojected == file.crs \notin {"none", "EPSG:4326"}
         IN  IF \E i \in 1..Len(gdf) : gdf[i].type \notin PolygonTypes
             THEN Rejected("GeoJSON must contain only Polygon or MultiPolygon geometries",
                           nwarn, reprojected)
             ELSE Accepted(nwarn, reprojected, gdf)

\* geom.bounds of every row of a frame.
BoundsOf(gdf) == [i \in 1..Len(gdf) |-> gdf[i].bounds]

\* The input files: every collection of polygons in EPSG:4326, and around one
\* small polygon the other frames, the other geometry types and the files
\* that cannot be loaded.
SmallBox == <<0, 3, 3, 4>>

PolygonFiles ==
    {GeoFile("EPSG:4326", [i \in 1..Len(c) |-> Feature("Polygon", c[i])]) :
        c \in AreaCollections}

OtherFiles ==
    {MissingFile,
     UnreadableFile,
     GeoFile("EPSG:4326", <<>>),
     GeoFile("none", <<Feature("Polygon", SmallBox)>>),
     GeoFile("EPSG:3857", <<Feature("Polygon", Projected(SmallBox))>>),
     GeoFile("EPSG:4326", <<Feature("MultiPolygon", SmallBox)>>),
     GeoFile("EPSG:4326", <<Feature("Point", <<2, 2, 2, 2>>)>>),
     GeoFile("none", <<Feature("Point", <<2, 2, 2, 2>>)>>),
     GeoFile("EPSG:3857", <<Feature("LineString", Projected(SmallBox))>>),
     GeoFile("EPSG:4326", <<Feature("Polygon", SmallBox), Feature("LineString", SmallBox)>>)}

GeoFiles == PolygonFiles \cup OtherFiles

\* -------------------------------------------------------------------- state
VARIABLES
    geojson,        \* the file at geojson_path
    validation,     \* what validate_geojson came to
    polys,          \* geom.bounds of the rows of gdf, once it is loaded
    tiles_dir,      \* whether the tile directory exists
    zoom,           \* --zoom
    tile_url,       \* --tile-url
    pc,             \* where download_tiles_pipeline is
    tiles,          \* gdf["tiles"]
    total_tiles,
    it,             \* number of the loop iteration, over polygons then tiles
    subtiles,       \* the results of the current tile's fetches so far
    stitched,       \* the current tile's stitched image
    files,          \* the tile directory: filename -> image
    metadata_list,
    downloaded,
    progress,       \* the progress messages logged: <<downloaded, total_tiles>>
    warnings,       \* the tiles named by the warnings logged
    fetched,        \* the tiles download_tile was called for
    outcomes,       \* how each of those calls ended: "image", "absent", "raised"
    last,           \* the last download_tile call
    failures,       \* absent results so far
    budget,         \* how many fetches of the run the network may fail
    metadata_file,  \* tile_metadata.geojson: whether written, and its records
    exc,            \* the exception that ended the run, with a non-zero exit
                    \* status, or "none"
    order,          \* the place in the tile lists the k-th loop iteration takes
    server,         \* what the tile server holds, where that is fixed
    slots,          \* the results of calls made at once: place -> result
    args,           \* the command line: the mode, and which options are given
    main_pc,        \* where main is
    status,         \* the exit status of the process, once it has exited
    complete,       \* whether "PIPELINE COMPLETE" is logged
    detections_dir, \* the detections directory: whether it exists
    detections,     \* its files: filename -> the tile image annotated
    model,          \* whether the Roboflow model is loaded
    tile_images,    \* sorted(glob(tiles_dir / "*.jpg"))
    handled,        \* how the loop body ended for each image taken so far
    processed,
    total_detections

vars == <<validation, geojson, tiles_dir, outcomes, polys, zoom, tile_url, pc, tiles, total_tiles, it, subtiles, stitched,
          files, metadata_list, downloaded, progress, warnings, fetched, last,
          failures, budget, metadata_file, exc, order, server, slots, args,
          main_pc, status, complete, detections_dir, detections, model,
          tile_images, handled, processed, total_detections>>

\* The state of download_tiles_pipeline.
vars_of_download ==
    <<validation, geojson, tiles_dir, outcomes, polys, zoom, tile_url, pc, tiles, total_tiles,
      it, subtiles, stitched, files, metadata_list, downloaded, progress, warnings, fetched,
      last, failures, budget, metadata_file, exc>>

\* The state of run_detection_pipeline.
detection_vars == <<detections_dir, detections, model, tile_images, handled, processed,
                    total_detections>>

\* The state of main and of its second stage.
main_vars == <<args, main_pc, status, complete, detection_vars>>

\* What the steps of download_tiles_pipeline read and never assign.
untouched == <<order, server, slots, main_vars>>

NoCall == [tile |-> NoTile, url |-> <<>>, net |-> "none",
           raised |-> "none", result |-> NoneImage, nwarn |-> 0]

NoCanvas == NewImage(0, 0)

NotWritten == [written |-> FALSE, records |-> <<>>]

\* The state a run starts in, whatever its inputs.
Started ==
    /\ validation = NotValidated
    /\ polys = <<>>
    /\ outcomes = <<>>
    /\ tiles = <<>>
    /\ total_tiles = 0
    /\ it = 1
    /\ subtiles = <<>>
    /\ stitched = NoCanvas
    /\ metadata_list = <<>>
    /\ downloaded = 0
    /\ progress = <<>>
    /\ warnings = <<>>
    /\ fetched = <<>>
    /\ last = NoCall
    /\ failures = 0
    /\ exc = "none"

\* No output directory yet.
EmptyDirectory ==
    /\ tiles_dir = FALSE
    /\ files = <<>>
    /\ metadata_file = NotWritten

Fresh == Started /\ EmptyDirectory

\* The loops take the polygons in row order and the tiles of a polygon in
\* list order: the k-th iteration takes the k-th tile.
InOrder == [k \in 1..MaxTiles |-> k]

\* A tile server that may answer any request in any way.
AnyContent == [fixed |-> FALSE, at |-> <<>>]

\* Whether the request for tile t can come to net.
Answers(t, net) == server.fixed => server.at[t] = net

\* run_detection_pipeline not entered.
NoDetection ==
    /\ detections_dir = FALSE
    /\ detections = <<>>
    /\ model = FALSE
    /\ tile_images = <<>>
    /\ handled = <<>>
    /\ processed = 0
    /\ total_detections = 0

\* main in mode download, at its call of download_tiles_pipeline.
DownloadOnly ==
    /\ args = [mode |-> "download", geojson |-> TRUE,
               roboflow_api_key |-> FALSE, roboflow_model |-> FALSE]
    /\ main_pc = "download"
    /\ status = "none"
    /\ complete = FALSE
    /\ NoDetection

\* The program as it is written and run: its loops in list order, and a
\* network that may answer anything.
AsRun ==
    /\ order = InOrder
    /\ server = AnyContent
    /\ slots = <<>>
    /\ DownloadOnly

\* How many fetches of a run of n tiles the network may fail.
FailureBudget(n) == IF n <= MaxFullTiles THEN 4 * n ELSE 1

\* How many tiles the run on a file has to produce.
TilesToDo(file, z) ==
    LET v == validate_geojson(file)
    IN  IF v.exit = 0 THEN SumLen(TilesOf(BoundsOf(v.gdf), z)) ELSE 0

Init ==
    /\ geojson \in GeoFiles
    /\ zoom \in Zooms
    /\ tile_url \in Templates
    /\ TilesToDo(geojson, zoom) <= MaxTiles
    /\ budget = FailureBudget(TilesToDo(geojson, zoom))
    /\ pc = "validate"
    /\ Fresh
    /\ AsRun

\* ------------------------------------------------- download_tiles_pipeline
\* The tile of the current loop iteration.
CurrentTile == Flatten(tiles)[order[it]]

\* The siblings kept inside the grid of the zoom level.
Sibling_clamped(t, i) ==
    Tile(IF t.x + (i % 2) > Pow2(t.z) - 1 THEN Pow2(t.z) - 1 ELSE t.x + (i % 2),
         IF t.y + (i \div 2) > Pow2(t.z) - 1 THEN Pow2(t.z) - 1 ELSE t.y + (i \div 2),
         t.z)

\* The lower siblings taken from the tile's own row.
Sibling_same_row(t, i) == Tile(t.x + (i % 2), t.y, t.z)

\* The i-th (0-based) of the four addresses fetched for tile t.
Sibling(t, i) == Tile(t.x + (i % 2), t.y + (i \div 2), t.z)

\* The row before the column.
Filename_row_first(t) ==
    ToDec(t.y) \o <<"_">> \o ToDec(t.x) \o <<"_">> \o ToDec(t.z) \o <<".jpg">>

\* A name without the row.
Filename_no_row(t) == ToDec(t.x) \o <<"_">> \o ToDec(t.z) \o <<".jpg">>

Filename(t) == ToDec(t.x) \o <<"_">> \o ToDec(t.y) \o <<"_">> \o ToDec(t.z) \o <<".jpg">>

\* The metadata written as soon as one tile is done.
AfterIteration_first_tile(done) ==
    IF done = 0 /\ SumLen(tiles) > 0 THEN "fetch" ELSE "metadata"

\* Where the loop goes once `done` iterations are over.
AfterIteration(done) == IF done < SumLen(tiles) THEN "fetch" ELSE "metadata"

\* gdf = validate_geojson(geojson_path)
Validate ==
    /\ pc = "validate"
    /\ LET v == validate_geojson(geojson)
       IN  IF v.exit # 0
           THEN /\ pc' = "exited"
                /\ exc' = "SystemExit(1)"
                /\ polys' = polys
                /\ validation' = v
           ELSE /\ pc' = "start"
                /\ exc' = exc
                /\ polys' = BoundsOf(v.gdf)
                /\ validation' = v
    /\ UNCHANGED <<untouched, geojson, budget, zoom, tile_url, tiles, total_tiles, it, subtiles,
                   stitched, files, metadata_list, downloaded, progress, warnings,
                   fetched, last, failures, metadata_file, tiles_dir, outcomes>>

\* gdf["tiles"] = ...; total_tiles = sum(...)
ComputeTiles ==
    /\ pc = "start"
    /\ tiles' = TilesOf(polys, zoom)
    /\ total_tiles' = SumLen(TilesOf(polys, zoom))
    /\ pc' = "mkdir"
    /\ UNCHANGED <<untouched, validation, geojson, budget, polys, zoom, tile_url, it, subtiles, stitched, files,
                   metadata_list, downloaded, progress, warnings, fetched, last,
                   failures, metadata_file, exc, tiles_dir, outcomes>>

\* tiles_dir.mkdir(parents=True, exist_ok=True), then the loop is entered;
\* an OSError of mkdir is not caught.
MakeDirs ==
    /\ pc = "mkdir"
    /\ \E made \in BOOLEAN :
        IF made
        THEN /\ tiles_dir' = TRUE
             /\ pc' = AfterIteration(0)
             /\ exc' = exc
        ELSE /\ tiles_dir' = tiles_dir
             /\ pc' = "crashed"
             /\ exc' = "OSError"
    /\ UNCHANGED <<untouched, validation, geojson, budget, polys, zoom, tile_url, tiles, total_tiles, it, subtiles,
                   stitched, files, metadata_list, downloaded, progress, warnings,
                   fetched, last, failures, metadata_file, outcomes>>

\* Giving up on a tile at its first absent subtile.
AfterFetch_stop_at_failure(n, result) ==
    IF n = 3 \/ ~result.present THEN "stitch" ELSE "fetch"

\* The subtiles list holds four calls, each made whatever the others returned:
\* where the pipeline goes after the call that fills element n (0-based).
AfterFetch(n, result) == IF n = 3 THEN "stitch" ELSE "fetch"

\* An absent result dropped, for the call to be made again.
WithResult_retry(subs, result) ==
    IF result.present THEN Append(subs, result) ELSE subs

\* The subtiles list with the result of its next call.
WithResult(subs, result) == Append(subs, result)

\* How a call of download_tile ended.
CallOutcome(r) ==
    IF r.raised # "none" THEN "raised"
    ELSE IF r.result.present THEN "image" ELSE "absent"

\* One element of the subtiles list: a call of download_tile.
FetchSubtile ==
    /\ pc = "fetch"
    /\ \E net \in NetOutcomes :
        LET t == Sibling(CurrentTile, Len(subtiles))
            r == download_tile(t, tile_url, net)
        IN  /\ Answers(t, net)
            /\ (r.raised = "none" /\ ~r.result.present) => failures < budget
            /\ fetched' = Append(fetched, t)
            /\ outcomes' = Append(outcomes, CallOutcome(r))
            /\ last' = [tile |-> t,
                        url |-> IF FormatRaises(tile_url) THEN <<>> ELSE FormatUrl(tile_url, t),
                        net |-> IF FormatRaises(tile_url) THEN "none" ELSE net,
                        raised |-> r.raised, result |-> r.result, nwarn |-> r.nwarn]
            /\ warnings' = warnings \o [k \in 1..r.nwarn |-> t]
            /\ IF r.raised # "none"
               THEN /\ pc' = "crashed"
                    /\ exc' = r.raised
                    /\ UNCHANGED <<subtiles, failures>>
               ELSE /\ subtiles' = WithResult(subtiles, r.result)
                    /\ failures' = IF r.result.present THEN failures ELSE failures + 1
                    /\ pc' = AfterFetch(Len(WithResult(subtiles, r.result)) - 1, r.result)
                    /\ exc' = exc
    /\ UNCHANGED <<untouched, validation, geojson, budget, polys, zoom, tile_url, tiles, total_tiles, it, stitched, files,
                   metadata_list, downloaded, progress, metadata_file, tiles_dir>>

\* The record written before the image is saved.
AfterStitch_unsaved == "record"

\* The statement after the stitch: the save of the image.
AfterStitch == "save"

\* stitched = stitch_tiles(subtiles)
Stitch ==
    /\ pc = "stitch"
    /\ stitched' = stitch_tiles(subtiles)
    /\ pc' = AfterStitch
    /\ UNCHANGED <<untouched, validation, geojson, budget, polys, zoom, tile_url, tiles, total_tiles, it, subtiles, files,
                   metadata_list, downloaded, progress, warnings, fetched, last,
                   failures, metadata_file, exc, tiles_dir, outcomes>>

\* An existing file kept as it is.
WriteFile_keep_existing(dir, name, content) ==
    [n \in DOMAIN dir \cup {name} |-> IF n \in DOMAIN dir THEN dir[n] ELSE content]

\* What Image.save may come to: the file written, the file not opened, or
\* the file opened and the writing of it cut short.
SaveOutcomes == {"saved", "not_opened", "truncated"}

\* The directory dir with content under name.
WriteFile(dir, name, content) ==
    [n \in DOMAIN dir \cup {name} |-> IF n = name THEN content ELSE dir[n]]

\* A failed save logged and passed over.
AfterSave_passed_over(fs) == "record"

\* Where the pipeline goes after save: its OSError is not caught.
AfterSave(fs) == IF fs = "saved" THEN "record" ELSE "crashed"

\* stitched.save(tiles_dir / filename, "JPEG")
SaveImage ==
    /\ pc = "save"
    /\ \E fs \in SaveOutcomes :
        LET filename == Filename(CurrentTile)
        IN  /\ files' = IF fs = "saved" THEN WriteFile(files, filename, stitched)
                        ELSE IF fs = "truncated" THEN WriteFile(files, filename, NoCanvas)
                        ELSE files
            /\ pc' = AfterSave(fs)
            /\ exc' = IF AfterSave(fs) = "crashed" THEN "OSError" ELSE exc
    /\ UNCHANGED <<untouched, validation, geojson, budget, polys, zoom, tile_url, tiles, total_tiles, it, subtiles,
                   stitched, metadata_list, downloaded, progress, warnings, fetched,
                   last, failures, metadata_file, tiles_dir, outcomes>>

\* The footprint of the tile at the loop's place in the lists.
FootprintRecord_positional(t) ==
    [filename |-> Filename(t), geometry |-> TileBounds(Flatten(tiles)[it])]

\* The footprint record of tile t.
FootprintRecord(t) == [filename |-> Filename(t), geometry |-> TileBounds(t)]

\* A message every fifth completion only.
ProgressDue_interval_only(n, total) == n % ProgressEvery = 0

\* Whether a progress message follows the n-th completion.
ProgressDue(n, total) == n % ProgressEvery = 0 \/ n = total

\* metadata_list.append(...); downloaded += 1; the progress message.
Record ==
    /\ pc = "record"
    /\ metadata_list' = Append(metadata_list, FootprintRecord(CurrentTile))
    /\ downloaded' = downloaded + 1
    /\ progress' = IF ProgressDue(downloaded + 1, total_tiles)
                   THEN Append(progress, <<downloaded + 1, total_tiles>>)
                   ELSE progress
    /\ it' = it + 1
    /\ subtiles' = <<>>
    /\ pc' = AfterIteration(it)
    /\ UNCHANGED <<untouched, validation, geojson, budget, polys, zoom, tile_url, tiles, total_tiles, stitched, files,
                   warnings, fetched, last, failures, metadata_file, exc, tiles_dir,
                   outcomes>>

\* metadata_gdf.to_file(metadata_path); return tiles_dir. An error of
\* to_file is not caught.
WriteMetadata ==
    /\ pc = "metadata"
    /\ \E wrote \in BOOLEAN :
        IF wrote
        THEN /\ metadata_file' = [written |-> TRUE, records |-> metadata_list]
             /\ pc' = "returned"
             /\ exc' = exc
        ELSE /\ metadata_file' = metadata_file
             /\ pc' = "crashed"
             /\ exc' = "OSError"
    /\ UNCHANGED <<untouched, validation, geojson, budget, polys, zoom, tile_url, tiles, total_tiles, it, subtiles,
                   stitched, files, metadata_list, downloaded, progress, warnings,
                   fetched, last, failures, tiles_dir, outcomes>>

Next ==
    \/ Validate
    \/ ComputeTiles
    \/ MakeDirs
    \/ FetchSubtile
    \/ Stitch
    \/ SaveImage
    \/ Record
    \/ WriteMetadata

Spec == Init /\ [][Next]_vars

\* The program is sequential: it takes its next step whenever it has one.
FairSpec == Spec /\ WF_vars(Next)

\* ------------------------------------------------ a run after another run
\* An image an earlier run left behind.
OldImage ==
    [w |-> STITCHED_SIZE, h |-> STITCHED_SIZE,
     px |-> [p \in SamplePx \X SamplePx |-> [src |-> NoTile, u |-> p[1], v |-> p[2]]]]

\* A file of the tile directory that no run on the inputs produces.
OtherName == <<"notes.txt">>

\* The tile directory after earlier runs: images under the names of the
\* first tiles of each zoom, and a file of another name.
OldFiles ==
    [n \in {Filename(Tile(0, 0, z)) : z \in Zooms} \cup {OtherName} |-> OldImage]

OldMetadata ==
    [written |-> TRUE, records |-> <<[filename |-> OtherName, geometry |-> TileBounds(NoTile)]>>]

\* A run on one polygon with the output directory of earlier runs in place.
InitRerun ==
    /\ geojson \in {f \in PolygonFiles : Len(f.features) = 1}
    /\ zoom \in Zooms
    /\ tile_url \in Templates
    /\ TilesToDo(geojson, zoom) <= MaxTiles
    /\ budget = FailureBudget(TilesToDo(geojson, zoom))
    /\ pc = "validate"
    /\ Started
    /\ AsRun
    /\ tiles_dir = TRUE
    /\ files = OldFiles
    /\ metadata_file = OldMetadata

SpecRerun == InitRerun /\ [][Next]_vars

\* --------------------------------------- the loop in any order of its tiles
\* The orders in which n loop iterations can take n tiles.
LoopOrders(n) ==
    {f \in [1..n -> 1..n] : \A i, j \in 1..n : f[i] = f[j] => i = j}

\* The addresses a run on a file asks for.
AddressesOf(file, z) ==
    LET cov == Flatten(TilesOf(BoundsOf(validate_geojson(file).gdf), z))
    IN  {Tile(cov[k].x + dx, cov[k].y + dy, z) : k \in 1..Len(cov), dx \in {0, 1}, dy \in {0, 1}}

\* A tile server that holds an image at every address asked for but,
\* possibly, one, and answers each request for an address the same way.
FixedContents(addresses) ==
    {[fixed |-> TRUE, at |-> [a \in addresses |-> IF a = none THEN "http_error" ELSE "ok"]] :
        none \in addresses \cup {NoTile}}

\* A run from an empty directory, on a server of fixed content, whose loop
\* takes the covering tiles in any one order.
InitPermuted ==
    /\ geojson \in PolygonFiles
    /\ zoom \in Zooms
    /\ tile_url = DEFAULT_TILE_URL
    /\ TilesToDo(geojson, zoom) <= MaxPermuted
    /\ budget = 4 * TilesToDo(geojson, zoom)
    /\ pc = "validate"
    /\ Fresh
    /\ order \in LoopOrders(TilesToDo(geojson, zoom))
    /\ server \in FixedContents(AddressesOf(geojson, zoom))
    /\ slots = <<>>
    /\ DownloadOnly

SpecPermuted == InitPermuted /\ [][Next]_vars

\* ------------------------------------- the four calls of a tile made at once
\* A result put at the next free place, in the order of arrival.
PlaceResult_arrival(results, i, result) ==
    [j \in DOMAIN results \cup {Cardinality(DOMAIN results) + 1} |->
        IF j \in DOMAIN results THEN results[j] ELSE result]

\* The subtiles list is a list display: the result of its i-th call is its
\* i-th element, whenever the call returns.
PlaceResult(results, i, result) ==
    [j \in DOMAIN results \cup {i} |-> IF j = i THEN result ELSE results[j]]

\* The addresses the current tile's calls have been made for.
Called == {fetched[n] : n \in (4 * (it - 1) + 1)..Len(fetched)}

\* One of the four calls of the current tile returns, in any order of the
\* four; the list is complete when all have returned.
FetchConcurrently ==
    /\ pc = "fetch"
    /\ \E i \in 1..4, net \in NetOutcomes :
        LET t == Sibling(CurrentTile, i - 1)
            r == download_tile(t, tile_url, net)
            placed == PlaceResult(slots, i, r.result)
        IN  /\ t \notin Called
            /\ Answers(t, net)
            /\ fetched' = Append(fetched, t)
            /\ outcomes' = Append(outcomes, CallOutcome(r))
            /\ last' = [tile |-> t,
                        url |-> IF FormatRaises(tile_url) THEN <<>> ELSE FormatUrl(tile_url, t),
                        net |-> IF FormatRaises(tile_url) THEN "none" ELSE net,
                        raised |-> r.raised, result |-> r.result, nwarn |-> r.nwarn]
            /\ warnings' = warnings \o [k \in 1..r.nwarn |-> t]
            /\ IF r.raised # "none"
               THEN /\ pc' = "crashed"
                    /\ exc' = r.raised
                    /\ UNCHANGED <<subtiles, failures, slots>>
               ELSE /\ failures' = IF r.result.present THEN failures ELSE failures + 1
                    /\ exc' = exc
                    /\ IF Cardinality(DOMAIN placed) = 4
                       THEN /\ subtiles' = placed
                            /\ slots' = <<>>
                            /\ pc' = "stitch"
                       ELSE /\ subtiles' = subtiles
                            /\ slots' = placed
                            /\ pc' = "fetch"
    /\ UNCHANGED <<order, server, main_vars, validation, geojson, budget, polys, zoom, tile_url, tiles,
                   total_tiles, it, stitched, files, metadata_list, downloaded, progress,
                   metadata_file, tiles_dir>>

\* A run on one polygon of one output tile.
InitConcurrent ==
    /\ geojson = GeoFile("EPSG:4326", <<Feature("Polygon", SmallBox)>>)
    /\ zoom = 0
    /\ tile_url \in Templates
    /\ budget = 4
    /\ pc = "validate"
    /\ Fresh
    /\ AsRun

NextConcurrent ==
    \/ Validate
    \/ ComputeTiles
    \/ MakeDirs
    \/ FetchConcurrently
    \/ Stitch
    \/ SaveImage
    \/ Record
    \/ WriteMetadata

SpecConcurrent == InitConcurrent /\ [][NextConcurrent]_vars

\* ---------------------------------------------------- parse_args and main
\* --mode: one of its three choices.
Modes == {"download", "detect", "both"}

\* The command lines: the mode, and for each of --geojson, --roboflow-api-key
\* and --roboflow-model whether it is given a non-empty value.
CommandLines ==
    [mode : Modes, geojson : BOOLEAN, roboflow_api_key : BOOLEAN, roboflow_model : BOOLEAN]

\* The model identifier not asked for.
validate_detection_args_key_only(a) ==
    IF a.mode \in {"detect", "both"} /\ ~a.roboflow_api_key THEN 1 ELSE 0

\* validate_detection_args(args): the status it exits with, 0 when it returns.
validate_detection_args(a) ==
    IF a.mode \in {"detect", "both"}
    THEN IF ~a.roboflow_api_key THEN 1
         ELSE IF ~a.roboflow_model THEN 1
         ELSE 0
    ELSE 0

\* parse_args(): the status it exits with, 0 when it returns the arguments.
\* parser.error exits with status 2.
parse_args(a) ==
    IF a.mode \in {"download", "both"} /\ ~a.geojson THEN 2
    ELSE validate_detection_args(a)

\* The first stage run in every mode.
DownloadSelected_always(mode) == TRUE

\* The conditions of the two stages in main.
DownloadSelected(mode) == mode \in {"download", "both"}
DetectionSelected(mode) == mode \in {"detect", "both"}

\* args = parse_args()
ParseArgs ==
    /\ main_pc = "parse_args"
    /\ IF parse_args(args) # 0
       THEN /\ main_pc' = "exited"
            /\ status' = parse_args(args)
       ELSE /\ main_pc' = "select_download"
            /\ status' = status
    /\ UNCHANGED <<vars_of_download, order, server, slots, args, complete, detection_vars>>

\* if args.mode in ['download', 'both']: tiles_dir = download_tiles_pipeline(...)
CallDownload ==
    /\ main_pc = "select_download"
    /\ IF DownloadSelected(args.mode)
       THEN /\ main_pc' = "download"
            /\ pc' = "validate"
       ELSE /\ main_pc' = "select_detection"
            /\ pc' = pc
    /\ UNCHANGED <<validation, geojson, tiles_dir, outcomes, polys, zoom, tile_url, tiles,
                   total_tiles, it, subtiles, stitched, files, metadata_list, downloaded,
                   progress, warnings, fetched, last, failures, budget, metadata_file, exc,
                   order, server, slots, args, status, complete, detection_vars>>

\* An exception or a sys.exit of download_tiles_pipeline leaves main.
DownloadRaised ==
    /\ main_pc = "download"
    /\ pc \in {"crashed", "exited"}
    /\ main_pc' = "exited"
    /\ status' = 1
    /\ UNCHANGED <<vars_of_download, order, server, slots, args, complete, detection_vars>>

\* if args.mode in ['detect', 'both']: the check of the tiles directory and
\* the call of run_detection_pipeline; in mode download, the last log lines.
CallDetection ==
    /\ \/ main_pc = "select_detection"
       \/ main_pc = "download" /\ pc = "returned"
    /\ IF DetectionSelected(args.mode)
       THEN IF ~tiles_dir
            THEN /\ main_pc' = "exited"
                 /\ status' = 1
                 /\ complete' = complete
            ELSE /\ main_pc' = "detections_mkdir"
                 /\ status' = status
                 /\ complete' = complete
       ELSE /\ main_pc' = "done"
            /\ status' = 0
            /\ complete' = TRUE
    /\ UNCHANGED <<vars_of_download, order, server, slots, args, detection_vars>>

\* ---------------------------------------------------- run_detection_pipeline
\* detections_dir.mkdir(parents=True, exist_ok=True): an OSError is not caught.
MakeDetectionsDir ==
    /\ main_pc = "detections_mkdir"
    /\ \E made \in BOOLEAN :
        IF made
        THEN /\ detections_dir' = TRUE
             /\ main_pc' = "load_model"
             /\ status' = status
        ELSE /\ detections_dir' = detections_dir
             /\ main_pc' = "exited"
             /\ status' = 1
    /\ UNCHANGED <<vars_of_download, order, server, slots, args, complete, detections, model,
                   tile_images, handled, processed, total_detections>>

\* Where the pipeline goes after get_model: any exception of it ends the
\* process.
AfterModel(loaded) == IF loaded THEN "glob" ELSE "exited"

\* model = get_model(...)
LoadModel ==
    /\ main_pc = "load_model"
    /\ \E loaded \in BOOLEAN :
        /\ model' = loaded
        /\ main_pc' = AfterModel(loaded)
        /\ status' = IF AfterModel(loaded) = "exited" THEN 1 ELSE status
    /\ UNCHANGED <<vars_of_download, order, server, slots, args, complete, detections_dir,
                   detections, tile_images, handled, processed, total_detections>>

\* The files of a directory that "*.jpg" matches.
JpgNames(dir) == {n \in DOMAIN dir : n[Len(n)] = ".jpg"}

\* The place of a character of a filename in the order of str: "." before
\* the digits, the digits before "_".
CharRank(c) ==
    IF c = ".jpg" THEN 0
    ELSE IF \E d \in 0..(Base10 - 1) : Digit(d) = c
    THEN 1 + (CHOOSE d \in 0..(Base10 - 1) : Digit(d) = c)
    ELSE Base10 + 1

\* a < b for two filenames.
RECURSIVE StrLess(_, _)
StrLess(a, b) ==
    IF a = <<>> THEN b # <<>>
    ELSE IF b = <<>> THEN FALSE
    ELSE IF Head(a) = Head(b) THEN StrLess(Tail(a), Tail(b))
    ELSE CharRank(Head(a)) < CharRank(Head(b))

\* sorted(names)
RECURSIVE Sorted(_)
Sorted(names) ==
    IF names = {} THEN <<>>
    ELSE LET least == CHOOSE a \in names : \A b \in names \ {a} : StrLess(a, b)
         IN  <<least>> \o Sorted(names \ {least})

\* Where the pipeline goes after n of the images, or after the empty list.
AfterImage(n, images) == IF n >= Len(images) THEN "detection_returned" ELSE "image"

\* tile_images = sorted(glob.glob(str(tiles_dir / "*.jpg"))); an empty list
\* is a warning and a return.
FindImages ==
    /\ main_pc = "glob"
    /\ tile_images' = Sorted(JpgNames(files))
    /\ main_pc' = AfterImage(0, Sorted(JpgNames(files)))
    /\ UNCHANGED <<vars_of_download, order, server, slots, args, status, complete,
                   detections_dir, detections, model, handled, processed, total_detections>>

\* How the loop body can end for one image: cv2.imread returns None; an
\* exception of the inference, of the annotation or of cv2.imwrite; or the
\* body runs to its end, with no detection or with one, cv2.imwrite having
\* written the file or having returned False, its result being ignored.
ImageOutcomes ==
    {"unreadable", "infer_raised", "annotate_raised", "imwrite_raised",
     "clean", "detected", "unwritten"}

\* Every image taken counted.
Counted_every(outcome) == TRUE

\* Whether the body reaches processed += 1.
Counted(outcome) == outcome \in {"clean", "detected", "unwritten"}

\* len(detections) for the image.
NumDetections(outcome) == IF outcome = "detected" THEN 1 ELSE 0

\* One iteration of the loop over tile_images.
ProcessImage ==
    /\ main_pc = "image"
    /\ \E outcome \in ImageOutcomes :
        LET filename == tile_images[Len(handled) + 1]
        IN  /\ handled' = Append(handled, [filename |-> filename, outcome |-> outcome])
            /\ detections' = IF outcome \in {"clean", "detected"}
                             THEN WriteFile(detections, filename,
                                            [scene |-> files[filename],
                                             boxes |-> NumDetections(outcome)])
                             ELSE detections
            /\ processed' = IF Counted(outcome) THEN processed + 1 ELSE processed
            /\ total_detections' = IF Counted(outcome)
                                   THEN total_detections + NumDetections(outcome)
                                   ELSE total_detections
            /\ main_pc' = AfterImage(Len(handled) + 1, tile_images)
    /\ UNCHANGED <<vars_of_download, order, server, slots, args, status, complete,
                   detections_dir, model, tile_images>>

\* run_detection_pipeline returns, and main logs "PIPELINE COMPLETE".
LogComplete ==
    /\ main_pc = "detection_returned"
    /\ complete' = TRUE
    /\ main_pc' = "done"
    /\ status' = 0
    /\ UNCHANGED <<vars_of_download, order, server, slots, args, detection_vars>>

\* The file at --geojson, where one is given.
OneTileFile == GeoFile("EPSG:4326", <<Feature("Polygon", SmallBox)>>)

\* The start of the program, on any command line: the tile directory is not
\* there, or is empty, or holds the files of earlier runs, and the tile
\* server holds an image at every address.
InitMain ==
    /\ args \in CommandLines
    /\ main_pc = "parse_args"
    /\ status = "none"
    /\ complete = FALSE
    /\ NoDetection
    /\ geojson \in IF args.geojson THEN {OneTileFile, MissingFile} ELSE {MissingFile}
    /\ zoom \in Zooms
    /\ tile_url = DEFAULT_TILE_URL
    /\ budget = 0
    /\ pc = "not called"
    /\ Started
    /\ order = InOrder
    /\ server = AnyContent
    /\ slots = <<>>
    /\ \/ EmptyDirectory
       \/ tiles_dir = TRUE /\ files = <<>> /\ metadata_file = NotWritten
       \/ tiles_dir = TRUE /\ files = OldFiles /\ metadata_file = OldMetadata

NextMain ==
    \/ ParseArgs
    \/ CallDownload
    \/ Next
    \/ DownloadRaised
    \/ CallDetection
    \/ MakeDetectionsDir
    \/ LoadModel
    \/ FindImages
    \/ ProcessImage
    \/ LogComplete

SpecMain == InitMain /\ [][NextMain]_vars

\* ------------------------------------------ get_tiles_for_bbox on its own
\* Every box of the frame, the empty ones (a point, a line) included, with
\* latitudes up to one unit beyond the north and south edges of the tile grid.
TilerBoxes ==
    {b \in (0..World) \X (-1..(World + 1)) \X (0..World) \X (-1..(World + 1)) :
        b[1] <= b[3] /\ b[2] <= b[4]}

\* A call of get_tiles_for_bbox on the bounds of any one polygon.
InitTiler ==
    /\ \E b \in TilerBoxes :
        /\ geojson = GeoFile("EPSG:4326", <<Feature("Polygon", b)>>)
        /\ polys = <<b>>
    /\ zoom \in Zooms
    /\ tile_url = DEFAULT_TILE_URL
    /\ budget = 0
    /\ pc = "start"
    /\ tiles_dir = FALSE
    /\ validation = NotValidated
    /\ AsRun
    /\ outcomes = <<>>
    /\ tiles = <<>>
    /\ total_tiles = 0
    /\ it = 1
    /\ subtiles = <<>>
    /\ stitched = NoCanvas
    /\ files = <<>>
    /\ metadata_list = <<>>
    /\ downloaded = 0
    /\ progress = <<>>
    /\ warnings = <<>>
    /\ fetched = <<>>
    /\ last = NoCall
    /\ failures = 0
    /\ metadata_file = NotWritten
    /\ exc = "none"

SpecTiler == InitTiler /\ [][ComputeTiles]_vars

\* ------------------------------------------------ stitch_tiles on its own
\* The images stitch_tiles may be given: None, or the image of any source.
StitchInputs ==
    {NoneImage} \cup {TileImage(Tile(k, 0, 0)) : k \in 1..MaxSources}

\* A call of stitch_tiles on any four optional images.
InitStitch ==
    /\ geojson = GeoFile("EPSG:4326", <<Feature("Polygon", SmallBox)>>)
    /\ polys = <<SmallBox>>
    /\ tiles_dir = TRUE
    /\ validation = NotValidated
    /\ AsRun
    /\ outcomes = <<>>
    /\ zoom = 0
    /\ tile_url = DEFAULT_TILE_URL
    /\ budget = 0
    /\ pc = "stitch"
    /\ tiles = <<>>
    /\ total_tiles = 0
    /\ it = 1
    /\ subtiles \in [1..4 -> StitchInputs]
    /\ stitched = NoCanvas
    /\ files = <<>>
    /\ metadata_list = <<>>
    /\ downloaded = 0
    /\ progress = <<>>
    /\ warnings = <<>>
    /\ fetched = <<>>
    /\ last = NoCall
    /\ failures = 0
    /\ metadata_file = NotWritten
    /\ exc = "none"

SpecStitch == InitStitch /\ [][Stitch]_vars

\* ================================================================= claims

\* A step that is a call of download_tile.
IsFetchStep == Len(fetched') = Len(fetched) + 1

\* C1: download_tile never raises past its boundary: whatever the tile
\* address, the URL template and the outcome of the request, every call
\* returns an image or None.
C1_NeverRaises == last.raised = "none" /\ exc = "none"

\* C2: a call of download_tile that returns gives the decoded image exactly
\* when the request succeeded and its payload decoded; an absent result
\* comes with exactly one warning, naming the tile, and a present one with
\* none.
C2_ResultAndWarning ==
    [][(IsFetchStep /\ last'.raised = "none") =>
          /\ last'.tile = fetched'[Len(fetched')]
          /\ (last'.net = "ok") <=> last'.result.present
          /\ last'.net = "ok" => last'.result = TileImage(last'.tile)
          /\ last'.net \in {"http_error", "timeout", "bad_payload"} =>
                 /\ last'.result = NoneImage
                 /\ warnings' = Append(warnings, last'.tile)
          /\ last'.result.present => warnings' = warnings]_vars

\* A run in which a payload failed to decode after other fetches came back
\* present and absent.
C2_Witness ==
    /\ last.net = "bad_payload"
    /\ ~last.result.present
    /\ Len(warnings) = 2
    /\ Len(fetched) >= 4

\* The covering tiles, in loop order.
Covering == Flatten(TilesOf(polys, zoom))

\* The run has returned with an image and a record for every covering tile
\* and with the metadata file written.
Completed ==
    /\ pc = "returned"
    /\ exc = "none"
    /\ metadata_file = [written |-> TRUE, records |-> metadata_list]
    /\ Len(metadata_list) = Len(Covering)
    /\ \A k \in 1..Len(Covering) :
        /\ metadata_list[k].filename = Filename(Covering[k])
        /\ Filename(Covering[k]) \in DOMAIN files

\* The run was ended by an error of the filesystem.
FilesystemFailed == pc = "crashed" /\ exc = "OSError"

\* C3: whichever fetches come back absent, the run is not aborted by a fetch:
\* every run whose fetches return goes on to write an image and a record for
\* every covering tile, then the metadata file, and returns; nothing but a
\* failure of the filesystem itself ends it earlier.
C3_FetchFailuresTolerated ==
    (pc = "start" /\ ~FormatRaises(tile_url)) ~> (Completed \/ FilesystemFailed)

AllBlank(img) == \A p \in DOMAIN img.px : img.px[p] = BlankPixel

\* A completed run in which every fetch came back absent: the image of its
\* tile is blank, and its record and the metadata file are written.
C3_Witness ==
    /\ Completed
    /\ Len(Covering) >= 1
    /\ failures = 4 * Len(Covering)
    /\ \A k \in 1..Len(Covering) : AllBlank(files[Filename(Covering[k])])

\* The sample pixels of quadrant i (0-based) of the stitched canvas.
Quadrant(i) ==
    {p \in SamplePx \X SamplePx :
        /\ p[1] \div TILE_SIZE = i % 2
        /\ p[2] \div TILE_SIZE = i \div 2}

\* stitch_tiles has returned.
Stitched == pc = "save"

\* C4: stitch_tiles returns a canvas of exactly 2 x tile unit a side for
\* every subset of present inputs, and an all-blank one for the empty subset.
C4_CanvasSize ==
    Stitched =>
        /\ stitched.w = 2 * TILE_SIZE
        /\ stitched.h = 2 * TILE_SIZE
        /\ DOMAIN stitched.px = SamplePx \X SamplePx
        /\ (\A i \in 1..4 : ~subtiles[i].present) => AllBlank(stitched)

\* stitch_tiles has returned the canvas of four absent inputs.
C4_Witness ==
    /\ Stitched
    /\ \A i \in 1..4 : ~subtiles[i].present
    /\ stitched.w = 512
    /\ AllBlank(stitched)

\* The top-left pixel of the block that input i is to land in.
BlockOrigin(i) ==
    CASE i = 0 -> <<0, 0>>
      [] i = 1 -> <<256, 0>>
      [] i = 2 -> <<0, 256>>
      [] i = 3 -> <<256, 256>>

\* The address whose image is to land in block i of the image of base tile t.
BlockTile(t, i) ==
    CASE i = 0 -> Tile(t.x, t.y, t.z)
      [] i = 1 -> Tile(t.x + 1, t.y, t.z)
      [] i = 2 -> Tile(t.x, t.y + 1, t.z)
      [] i = 3 -> Tile(t.x + 1, t.y + 1, t.z)

\* C5: input i of stitch_tiles lands with its top-left corner at
\* ((i mod 2) * 256, (i div 2) * 256), and in the pipeline input i is the
\* image fetched for the base tile moved by (i mod 2, i div 2): base tile
\* top-left, column+1 top-right, row+1 bottom-left, both bottom-right.
C5_Placement ==
    Stitched =>
        \A i \in 0..3 :
            subtiles[i + 1].present =>
                /\ subtiles[i + 1].src = BlockTile(CurrentTile, i)
                /\ stitched.px[BlockOrigin(i)] = ImagePixel(subtiles[i + 1], 0, 0)
                /\ stitched.px[<<BlockOrigin(i)[1] + 255, BlockOrigin(i)[2] + 255>>]
                       = ImagePixel(subtiles[i + 1], 255, 255)

\* The pipeline has stitched four present images.
C5_Witness ==
    /\ Stitched
    /\ \A i \in 1..4 : subtiles[i].present
    /\ stitched.px[<<256, 0>>].src = Tile(CurrentTile.x + 1, CurrentTile.y, zoom)
    /\ stitched.px[<<0, 256>>].src = Tile(CurrentTile.x, CurrentTile.y + 1, zoom)

\* C6: in the canvas stitch_tiles returns, the quadrant of an absent input
\* is blank and the quadrant of a present (tile-sized) input holds that
\* input's pixels: each quadrant is decided by the input at its own index.
C6_QuadrantFrame ==
    Stitched =>
        \A i \in 0..3 : \A p \in Quadrant(i) :
            stitched.px[p] =
                IF subtiles[i + 1].present
                THEN ImagePixel(subtiles[i + 1],
                                p[1] - BlockOrigin(i)[1], p[2] - BlockOrigin(i)[2])
                ELSE BlankPixel

\* A canvas with the same image in two quadrants, beside and above blank ones.
C6_Witness ==
    /\ Stitched
    /\ subtiles[1].present
    /\ ~subtiles[2].present
    /\ ~subtiles[3].present
    /\ subtiles[4] = subtiles[1]
    /\ stitched.px[<<256, 255>>] = BlankPixel
    /\ stitched.px[<<256, 256>>] = ImagePixel(subtiles[1], 0, 0)

\* C7: each covering tile gets exactly four fetches, for the tile, column+1,
\* row+1 and both, all at its zoom, and each is issued whatever the others
\* returned: the image of a tile is never stitched from fewer.
C7_FourFetches ==
    LET cov == Flatten(tiles)
    IN  /\ pc \in {"stitch", "save", "record"} => Len(subtiles) = 4
        /\ pc \in {"fetch", "stitch", "save", "record"} =>
            /\ Len(fetched) = 4 * downloaded + Len(subtiles)
            /\ \A i \in 0..(Len(subtiles) - 1) :
                fetched[4 * downloaded + i + 1] = BlockTile(cov[it], i)
        /\ pc \in {"metadata", "returned"} => Len(fetched) = 4 * downloaded
        /\ \A k \in 1..downloaded : \A i \in 0..3 :
            fetched[4 * (k - 1) + i + 1] = BlockTile(cov[k], i)

\* The four fetches of a tile are over, the first and the third absent.
C7_Witness ==
    /\ pc = "stitch"
    /\ Len(fetched) = 4
    /\ ~subtiles[1].present
    /\ subtiles[2].present
    /\ ~subtiles[3].present
    /\ subtiles[4].present

\* C8: a completed run over a single polygon covered by N base tiles has
\* issued exactly 4N fetches and produced exactly N image files and exactly
\* N footprint records.
C8_Counts ==
    (pc = "returned" /\ Len(polys) = 1) =>
        LET N == Len(get_tiles_for_bbox(polys[1], zoom))
        IN  /\ Len(fetched) = 4 * N
            /\ Cardinality(DOMAIN files) = N
            /\ Len(metadata_list) = N
            /\ Len(metadata_file.records) = N

\* A completed run over one polygon of two tiles a side: 4 addresses, 16
\* fetches, 4 images, 4 records.
C8_Witness ==
    /\ pc = "returned"
    /\ Len(polys) = 1
    /\ Len(get_tiles_for_bbox(polys[1], zoom)) = 4
    /\ Len(fetched) = 16
    /\ Cardinality(DOMAIN files) = 4
    /\ Len(metadata_file.records) = 4

\* The slippy-map bounding rectangle of tile t in the geographic frame: the
\* grid has 2^z columns and rows over the world, row 0 northmost.
SlippyBounds(t) ==
    [west  |-> (t.x * World) \div Pow2(t.z),
     south |-> World - ((t.y + 1) * World) \div Pow2(t.z),
     east  |-> ((t.x + 1) * World) \div Pow2(t.z),
     north |-> World - (t.y * World) \div Pow2(t.z)]

\* C9: the footprint recorded for an output tile is the slippy-map bounding
\* rectangle of its base tile alone: a function of (x, y, z), whatever the
\* polygon that produced the tile and whichever subtile fetches succeeded.
C9_FootprintIsTileBounds ==
    /\ LET cov == Covering
       IN  \A k \in 1..Len(metadata_list) :
               metadata_list[k].geometry = SlippyBounds(cov[k])
    /\ \A j, k \in 1..Len(metadata_list) :
        metadata_list[j].filename = metadata_list[k].filename =>
            metadata_list[j].geometry = metadata_list[k].geometry

\* Two different polygons produced the same tile, one of its fetches failed,
\* and both records are written.
C9_Witness ==
    /\ Len(polys) = 2
    /\ Len(metadata_list) = 2
    /\ polys[1] # polys[2]
    /\ metadata_list[1].filename = metadata_list[2].filename
    /\ failures = 1

\* Rectangle inner lies within rectangle outer.
Within(inner, outer) ==
    /\ outer.west <= inner.west
    /\ inner.east <= outer.east
    /\ outer.south <= inner.south
    /\ inner.north <= outer.north

\* C10: the polygon of every footprint record bounds the stitched image
\* stored under the record's filename: it covers the extent of the block of
\* tiles, columns x..x+1 and rows y..y+1, that the image is composed from.
C10_FootprintCoversStitched ==
    LET cov == Covering
    IN  \A k \in 1..Len(metadata_list) : \A i \in 0..3 :
            Within(SlippyBounds(BlockTile(cov[k], i)), metadata_list[k].geometry)

\* ------------------------------------------------------------------- C11
\* The tiles the tiler generates for the i-th polygon of the input.
PolyTiles(i) == get_tiles_for_bbox(polys[i], zoom)

\* How many tiles the polygons before the i-th have.
RECURSIVE TilesBefore(_)
TilesBefore(i) == IF i = 1 THEN 0 ELSE TilesBefore(i - 1) + Len(PolyTiles(i - 1))

\* C11: the records of the written metadata file come polygon by polygon in
\* input order and, within a polygon, in the order the tiler generated its
\* tiles: the j-th tile of polygon i is the record at place j after the
\* records of all the polygons before i, and there are no other records.
C11_RecordOrder ==
    metadata_file.written =>
        LET recs == metadata_file.records
        IN  /\ Len(recs) = TilesBefore(Len(polys) + 1)
            /\ \A i \in 1..Len(polys) :
                LET mine == PolyTiles(i)
                    before == TilesBefore(i)
                IN  \A j \in 1..Len(mine) :
                        recs[before + j].filename = Filename(mine[j])

\* The file is written for two polygons of several tiles each, with different
\* tiles.
C11_Witness ==
    /\ metadata_file.written
    /\ Len(polys) = 2
    /\ Len(PolyTiles(1)) > 1
    /\ Len(PolyTiles(2)) > 1
    /\ PolyTiles(1)[2] # PolyTiles(2)[2]
    /\ metadata_file.records[Len(PolyTiles(1)) + 1].filename = Filename(PolyTiles(2)[1])

\* ------------------------------------------------------------------- C12
\* Every covering tile of every polygon has been fetched, stitched, saved and
\* recorded.
AllProcessed ==
    LET cov == Covering
    IN  /\ Len(fetched) = 4 * Len(cov)
        /\ \A k \in 1..Len(cov) : \A i \in 0..3 :
                fetched[4 * (k - 1) + i + 1] = BlockTile(cov[k], i)
        /\ \A k \in 1..Len(cov) : Filename(cov[k]) \in DOMAIN files
        /\ Len(metadata_list) = Len(cov)
        /\ downloaded = Len(cov)

\* C12: the metadata file is written at most once, only when every covering
\* tile of every polygon has been fetched, stitched, saved and recorded, and
\* no step after the write fetches a tile, writes an image or writes the
\* metadata file again.
C12_MetadataLast ==
    [][/\ metadata_file' # metadata_file =>
            ~metadata_file.written /\ metadata_file'.written /\ AllProcessed
       /\ metadata_file.written =>
            /\ metadata_file' = metadata_file
            /\ fetched' = fetched
            /\ files' = files]_vars

\* The file is written in a run of several tiles.
C12_Witness ==
    /\ metadata_file.written
    /\ Len(Covering) > 1
    /\ Len(metadata_file.records) = Len(Covering)

\* ------------------------------------------------------------------- C13
\* Reading a file name "{column}_{row}_{zoom}.jpg" back.
DigitValue(c) == CHOOSE d \in 0..(Base10 - 1) : Digit(d) = c

IsDigit(c) == \E d \in 0..(Base10 - 1) : Digit(d) = c

RECURSIVE FromDec(_)
FromDec(s) ==
    IF Len(s) = 0 THEN 0
    ELSE FromDec(SubSeq(s, 1, Len(s) - 1)) * Base10 + DigitValue(s[Len(s)])

Separators(name) == {i \in 1..Len(name) : name[i] = "_"}

\* name is decimal digits, "_", digits, "_", digits, ".jpg".
WellFormedName(name) ==
    /\ Len(name) >= 6
    /\ name[Len(name)] = ".jpg"
    /\ Cardinality(Separators(name)) = 2
    /\ \A i \in 1..(Len(name) - 1) : i \notin Separators(name) => IsDigit(name[i])
    /\ \A i \in Separators(name) :
        i > 1 /\ i < Len(name) - 1 /\ (i + 1) \notin Separators(name)

\* The tile address a well-formed name spells.
ParseName(name) ==
    LET a == CHOOSE i \in Separators(name) : \A j \in Separators(name) : i <= j
        b == CHOOSE i \in Separators(name) : \A j \in Separators(name) : j <= i
    IN  Tile(FromDec(SubSeq(name, 1, a - 1)),
             FromDec(SubSeq(name, a + 1, b - 1)),
             FromDec(SubSeq(name, b + 1, Len(name) - 1)))

NamesTile(name, t) == WellFormedName(name) /\ ParseName(name) = t

\* Addresses with one, two and three digits, where names could run together.
NameCoords == {0, 1, 10, 11, 101, 110}

NameTiles == {Tile(x, y, z) : x \in NameCoords, y \in NameCoords, z \in NameCoords}

\* C13: every stitched image is saved under "{column}_{row}_{zoom}.jpg" of
\* its base tile, never of a sibling; the footprint record of the tile carries
\* that same name; and the name spells the address back, so that two distinct
\* base tiles never share a name.
C13_Filenames ==
    LET cov == Covering
        saved == IF pc = "record" THEN downloaded + 1 ELSE downloaded
    IN  /\ pc \in {"fetch", "stitch", "save", "record", "metadata", "returned"} =>
            DOMAIN files = {Filename(cov[k]) : k \in 1..saved}
        /\ pc = "record" => files[Filename(cov[it])] = stitched
        /\ \A k \in 1..Len(metadata_list) :
            /\ metadata_list[k].filename = Filename(cov[k])
            /\ metadata_list[k].filename \in DOMAIN files
        /\ pc = "start" =>
            /\ \A t \in NameTiles \cup {cov[k] : k \in 1..Len(cov)} :
                NamesTile(Filename(t), t)
            /\ Cardinality({Filename(t) : t \in NameTiles}) = Cardinality(NameTiles)

\* A tile whose column and row differ, with siblings in range, has been
\* saved and recorded.
C13_Witness ==
    /\ Len(metadata_list) > 0
    /\ LET t == Covering[Len(metadata_list)]
       IN  /\ t.x # t.y
           /\ metadata_list[Len(metadata_list)].filename = Filename(t)
           /\ Filename(t) \in DOMAIN files

\* ------------------------------------------------------------------- C14
\* C14: the written metadata holds exactly one footprint feature per stitched
\* image file: no two of its records carry the same filename, and it has as
\* many records as the tile directory has image files.
C14_OneRecordPerFile ==
    metadata_file.written =>
        LET recs == metadata_file.records
        IN  /\ \A j, k \in 1..Len(recs) :
                recs[j].filename = recs[k].filename => j = k
            /\ Len(recs) = Cardinality(DOMAIN files)

\* ------------------------------------------------------------------- C15
\* The completions 1..n after which a progress observation is due when
\* `total` tiles are expected, in order.
RECURSIVE DueUpTo(_, _)
DueUpTo(n, total) ==
    IF n = 0 THEN <<>>
    ELSE IF n % ProgressEvery = 0 \/ n = total
    THEN Append(DueUpTo(n - 1, total), <<n, total>>)
    ELSE DueUpTo(n - 1, total)

\* How many of the observations report `entry`.
Occurrences(seq, entry) == Cardinality({k \in 1..Len(seq) : seq[k] = entry})

\* C15: the running count grows by exactly one per output tile (one per
\* record appended, one per image saved); a progress observation follows the
\* k-th completion iff k is a multiple of 5 or k is the total; and a completed
\* run of at least one tile ends its observations with completed = total,
\* reported exactly once.
C15_Progress ==
    [][/\ downloaded' # downloaded =>
            /\ pc = "record"
            /\ downloaded' = downloaded + 1
            /\ Len(metadata_list') = Len(metadata_list) + 1
       /\ Len(metadata_list') = downloaded'
       /\ progress' = DueUpTo(downloaded', Len(Covering))
       /\ (pc' = "returned" /\ Len(Covering) >= 1) =>
            /\ progress'[Len(progress')] = <<Len(Covering), Len(Covering)>>
            /\ Occurrences(progress', <<Len(Covering), Len(Covering)>>) = 1]_vars

\* A run of more tiles than the interval is completed: its fifth completion
\* was reported before the last, and the last once.
C15_Witness ==
    /\ pc = "returned"
    /\ Len(Covering) > ProgressEvery
    /\ progress = <<<<ProgressEvery, Len(Covering)>>, <<Len(Covering), Len(Covering)>>>>

\* ------------------------------------------------------------------- C16
\* The input has a geometry validation error: the file is missing, cannot be
\* read, has no feature, or has a feature that is neither a Polygon nor a
\* MultiPolygon.
GeometryError(file) ==
    \/ ~file.exists
    \/ ~file.readable
    \/ file.features = <<>>
    \/ \E i \in 1..Len(file.features) :
        file.features[i].type \notin {"Polygon", "MultiPolygon"}

\* C16: a run on an input with a geometry validation error never fetches a
\* tile and never creates the tile directory, an image file or the metadata
\* file, and the step that validates the input ends it with sys.exit(1).
C16_ValidationAborts ==
    GeometryError(geojson) =>
        /\ fetched = <<>>
        /\ ~tiles_dir
        /\ files = <<>>
        /\ ~metadata_file.written
        /\ pc \in {"validate", "exited"}
        /\ pc = "exited" => exc = "SystemExit(1)"

\* The run on a file whose second feature is a line has exited.
C16_Witness ==
    /\ pc = "exited"
    /\ Len(geojson.features) = 2
    /\ geojson.features[1].type = "Polygon"
    /\ geojson.features[2].type = "LineString"

\* ------------------------------------------------------------------- C17
\* The run was ended by an exception: it takes no further step.
Aborted == pc = "crashed"

\* C17: errors of the filesystem are fatal. A step that fails to create the
\* tile directory aborts the run with no fetch issued; a step that fails to
\* store the stitched image under its name aborts the run at that tile, with
\* no record appended for the tile; a step that fails to write the metadata
\* file aborts the run instead of returning; and an aborted run takes no
\* further step, so that it fetches no further tile and writes no metadata.
C17_FilesystemFatal ==
    [][/\ ~Aborted
       /\ (pc = "mkdir" /\ ~tiles_dir') =>
            /\ Aborted' /\ exc' = "OSError"
            /\ fetched' = <<>>
       /\ (pc = "save" /\ ~(Filename(CurrentTile) \in DOMAIN files'
                            /\ files'[Filename(CurrentTile)] = stitched)) =>
            /\ Aborted' /\ exc' = "OSError"
            /\ fetched' = fetched
            /\ metadata_list' = metadata_list
            /\ Len(metadata_list) = it - 1
            /\ ~metadata_file'.written
       /\ (pc = "metadata" /\ ~metadata_file'.written) =>
            /\ Aborted' /\ exc' = "OSError"
       /\ pc' = "returned" => metadata_file'.written /\ tiles_dir'
       /\ pc' = "fetch" => tiles_dir'
       /\ pc' = "record" => files'[Filename(CurrentTile)] = stitched]_vars

\* The save of the second tile of a run failed after the first tile was
\* saved and recorded: the run is aborted with one record and eight fetches.
C17_Witness ==
    /\ Aborted
    /\ exc = "OSError"
    /\ tiles_dir
    /\ Len(Covering) > 2
    /\ Len(metadata_list) = 1
    /\ Len(fetched) = 8
    /\ ~metadata_file.written

\* ------------------------------------------------------------------- C18
\* C18 as stated: a fetch that came back absent is never issued again, and the
\* address it was for is not fetched again later in the run.
C18_NeverFetchedAgain ==
    \A m, n \in 1..Len(fetched) :
        (m < n /\ outcomes[m] = "absent") => fetched[n] # fetched[m]

\* C18, amended: no fetch is retried. Every call of download_tile is for the
\* next quadrant of the next output tile, whatever the call before it
\* returned, so that no quadrant of an output tile gets a second call; and an
\* absent result is final for its output tile, whose image has that quadrant
\* blank. (The address itself may be fetched again for another output tile.)
C18_NoRetry ==
    LET cov == Flatten(tiles)
        done == 4 * downloaded
    IN  /\ Len(outcomes) = Len(fetched)
        /\ \A n \in 1..Len(fetched) :
            fetched[n] = BlockTile(cov[(n - 1) \div 4 + 1], (n - 1) % 4)
        /\ failures = Cardinality({n \in 1..Len(outcomes) : outcomes[n] = "absent"})
        /\ pc \in {"fetch", "stitch", "save", "record"} =>
            \A i \in 1..Len(subtiles) :
                subtiles[i].present <=> outcomes[done + i] = "image"
        /\ pc \in {"save", "record"} =>
            \A i \in 0..3 :
                outcomes[done + i + 1] = "absent" =>
                    \A p \in Quadrant(i) : stitched.px[p] = BlankPixel

\* A completed run in which the fetch of an address came back absent for one
\* output tile and the same address was fetched again, with an image, for a
\* later one.
C18_Witness ==
    /\ pc = "returned"
    /\ \E m, n \in 1..Len(fetched) :
        /\ m < n
        /\ fetched[m] = fetched[n]
        /\ outcomes[m] = "absent"
        /\ outcomes[n] = "image"
        /\ (m - 1) \div 4 # (n - 1) \div 4

\* ------------------------------------------------------------------- C19
\* Every tile address returned the same content each time the run fetched
\* it: the content of the network was stable.
StableContent ==
    \A m, n \in 1..Len(fetched) :
        fetched[m] = fetched[n] => outcomes[m] = outcomes[n]

\* The network served an image for address a.
Served(a) == \E n \in 1..Len(fetched) : fetched[n] = a /\ outcomes[n] = "image"

\* The calls a run on the loaded polygons makes, in order.
CallsOf(cov) == [n \in 1..(4 * Len(cov)) |-> BlockTile(cov[(n - 1) \div 4 + 1], (n - 1) % 4)]

\* The image a run stores for base tile t, from what the network serves.
ImageOf(t) ==
    [w |-> STITCHED_SIZE, h |-> STITCHED_SIZE,
     px |-> [p \in SamplePx \X SamplePx |->
                LET a == BlockTile(t, (p[1] \div TILE_SIZE) + 2 * (p[2] \div TILE_SIZE))
                IN  IF Served(a)
                    THEN [src |-> a, u |-> p[1] % TILE_SIZE, v |-> p[2] % TILE_SIZE]
                    ELSE BlankPixel]]

\* C19: the results of a completed run are a function of its inputs and of
\* the content the network serves, so that two runs from an empty directory
\* with the same inputs and the same content per address end with the same
\* image files, of the same content, and the same records in the same order.
\* The calls made are those the loaded polygons and the zoom give; the files
\* are the images of the covering tiles composed from the content served;
\* the records are those of the covering tiles in order.
C19_Deterministic ==
    (pc = "returned" /\ StableContent) =>
        LET cov == Covering
        IN  /\ fetched = CallsOf(cov)
            /\ DOMAIN files = {Filename(cov[k]) : k \in 1..Len(cov)}
            /\ \A k \in 1..Len(cov) : files[Filename(cov[k])] = ImageOf(cov[k])
            /\ metadata_file.records =
                [k \in 1..Len(cov) |->
                    [filename |-> Filename(cov[k]), geometry |-> SlippyBounds(cov[k])]]

\* A completed run of several tiles under stable content, where an address
\* fetched for two output tiles served an image both times and another
\* address served none.
C19_Witness ==
    /\ pc = "returned"
    /\ StableContent
    /\ Len(Covering) > 1
    /\ failures = 1
    /\ \E m, n \in 1..Len(fetched) :
        m # n /\ fetched[m] = fetched[n] /\ outcomes[m] = "image"

\* ------------------------------------------------------------------- C20
\* The points of box b on the half-unit grid, in doubled coordinates: box
\* corners and tile edges lie on whole units, so that a box is within a union
\* of tiles exactly when each of these points is within one of the tiles.
PointsOf(b) == ((2 * b[1])..(2 * b[3])) \X ((2 * b[2])..(2 * b[4]))

\* Point p, in doubled coordinates, lies within the bounds of tile t.
InTile(p, t) ==
    LET r == SlippyBounds(t)
    IN  /\ 2 * r.west <= p[1] /\ p[1] <= 2 * r.east
        /\ 2 * r.south <= p[2] /\ p[2] <= 2 * r.north

\* The union of the bounds of the tiles of list ts contains box b.
Covers(ts, b) == \A p \in PointsOf(b) : \E k \in 1..Len(ts) : InTile(p, ts[k])

\* get_tiles_for_bbox has returned.
Tiled == pc = "mkdir"

ProperBox(b) == b[1] < b[3] /\ b[2] < b[4] /\ 0 <= b[2] /\ b[4] <= World

C21_RerunFromScratch ==
    [][/\ files' # files =>
            /\ pc = "save"
            /\ DOMAIN files \subseteq DOMAIN files'
            /\ \A n \in DOMAIN files :
                n # Filename(CurrentTile) => files'[n] = files[n]
       /\ pc' = "record" =>
            /\ files'[Filename(CurrentTile)] = stitched
            /\ files'[Filename(CurrentTile)] # OldImage
       /\ pc' = "returned" =>
            LET cov == Covering
            IN  /\ fetched' = CallsOf(cov)
                /\ metadata_file'.records =
                    [k \in 1..Len(cov) |-> FootprintRecord(cov[k])]
                /\ \A n \in DOMAIN OldFiles :
                    IF \E k \in 1..Len(cov) : n = Filename(cov[k])
                    THEN files'[n] # OldFiles[n]
                    ELSE files'[n] = OldFiles[n]]_vars

\* A run has returned over the directory of earlier runs: the old image of
\* its first tile is replaced, new images stand beside it, the file of another
\* name is as it was and the metadata is this run's.
C21_Witness ==
    /\ pc = "returned"
    /\ tiles_dir
    /\ Len(Covering) > 1
    /\ Filename(Covering[1]) \in DOMAIN OldFiles
    /\ files[Filename(Covering[1])] # OldImage
    /\ files[OtherName] = OldImage
    /\ metadata_file # OldMetadata

\* ------------------------------------------------------------------- C22
\* C22: whenever validate_geojson returns, the frame returned is in EPSG:4326
\* and holds only Polygon and MultiPolygon features, one per feature of the
\* file: with the coordinates of the file when the file declares EPSG:4326 or
\* no frame (a warning is logged for the latter), and with the coordinates
\* converted when it declares another frame. The check of the geometry types
\* comes after the normalisation: a file rejected for its types has had its
\* warning logged, or its coordinates converted, first.
C22_Normalised ==
    /\ (pc # "validate" /\ validation.exit = 0) =>
        /\ validation.crs = "EPSG:4326"
        /\ Len(validation.gdf) = Len(geojson.features)
        /\ polys = [i \in 1..Len(validation.gdf) |-> validation.gdf[i].bounds]
        /\ \A i \in 1..Len(validation.gdf) :
            /\ validation.gdf[i].type \in {"Polygon", "MultiPolygon"}
            /\ validation.gdf[i].type = geojson.features[i].type
            /\ IF geojson.crs \in {"none", "EPSG:4326"}
               THEN validation.gdf[i].bounds = geojson.features[i].bounds
               ELSE Projected(validation.gdf[i].bounds) = geojson.features[i].bounds
        /\ validation.nwarn = (IF geojson.crs = "none" THEN 1 ELSE 0)
        /\ validation.reprojected <=> geojson.crs \notin {"none", "EPSG:4326"}
    /\ (pc = "exited" /\ geojson.exists /\ geojson.readable /\ geojson.features # <<>>) =>
        /\ validation.exit = 1
        /\ validation.nwarn = (IF geojson.crs = "none" THEN 1 ELSE 0)
        /\ validation.reprojected <=> geojson.crs \notin {"none", "EPSG:4326"}

\* A polygon of a projected frame has been loaded: its bounds are converted.
C22_Witness ==
    /\ pc = "start"
    /\ geojson.crs = "EPSG:3857"
    /\ validation.reprojected
    /\ polys # <<geojson.features[1].bounds>>
    /\ Projected(polys[1]) = geojson.features[1].bounds

LastColumn(t) == t.x = Pow2(t.z) - 1
LastRow(t) == t.y = Pow2(t.z) - 1

\* The sample pixels of quadrant i (0-based) of a stitched image.
QuadrantPx(i) ==
    {p \in SamplePx \X SamplePx :
        p[1] \div TILE_SIZE = i % 2 /\ p[2] \div TILE_SIZE = i \div 2}

\* C24: the siblings are derived without a check against the largest tile
\* index of the zoom level.  For a base tile in the last column the run still
\* fetches column + 1, and for one in the last row it still fetches row + 1:
\* the address is not clamped, not wrapped and not skipped, four calls are
\* made for every output tile.  A quadrant whose call came back absent is
\* blank in the stitched image, and the image is stored and its record
\* written all the same.
C24_EdgeSiblings ==
    /\ \A n \in 1..Len(fetched) :
        LET b == fetched[4 * ((n - 1) \div 4) + 1]
            i == (n - 1) % 4
        IN  /\ b = Flatten(tiles)[(n - 1) \div 4 + 1]
            /\ fetched[n].z = b.z
            /\ fetched[n].x = b.x + (i % 2)
            /\ fetched[n].y = b.y + (i \div 2)
            /\ (LastColumn(b) /\ i % 2 = 1) => fetched[n].x = Pow2(b.z)
            /\ (LastRow(b) /\ i \div 2 = 1) => fetched[n].y = Pow2(b.z)
    /\ pc \in {"stitch", "save", "record"} => Len(fetched) = 4 * it
    /\ pc \in {"save", "record"} =>
        \A i \in 0..3 :
            outcomes[4 * (it - 1) + i + 1] = "absent" =>
                \A p \in QuadrantPx(i) : stitched.px[p] = BlankPixel
    /\ pc = "record" =>
        /\ Filename(CurrentTile) \in DOMAIN files
        /\ files[Filename(CurrentTile)] = stitched
    /\ pc = "returned" =>
        /\ Len(fetched) = 4 * Len(Flatten(tiles))
        /\ \A k \in 1..Len(Flatten(tiles)) :
            /\ Filename(Flatten(tiles)[k]) \in DOMAIN files
            /\ metadata_file.records[k].filename = Filename(Flatten(tiles)[k])

\* A completed run at zoom 0, whose one tile is in the last column and the
\* last row: the base tile was served, the three addresses beyond the grid
\* were fetched and came back absent, and the image with three blank
\* quadrants and its record were written.
C24_Witness ==
    /\ pc = "returned"
    /\ zoom = 0
    /\ fetched = <<Tile(0, 0, 0), Tile(1, 0, 0), Tile(0, 1, 0), Tile(1, 1, 0)>>
    /\ outcomes = <<"image", "absent", "absent", "absent">>
    /\ \A p \in QuadrantPx(0) : files[Filename(Tile(0, 0, 0))].px[p] # BlankPixel
    /\ \A i \in 1..3 : \A p \in QuadrantPx(i) :
            files[Filename(Tile(0, 0, 0))].px[p] = BlankPixel
    /\ Len(metadata_file.records) = 1

\* ------------------------------------------------------------------- C25
\* The record of covering tile t.
RecordOf(t) == [filename |-> Filename(t), geometry |-> SlippyBounds(t)]

\* The records of the covering tiles, in list order.
ListRecords == [k \in 1..Len(Covering) |-> RecordOf(Covering[k])]

\* C25: no result depends on the order in which the output tiles are
\* processed.  With every address returning the same content each time, a
\* completed run that takes the covering tiles in any order ends with the
\* files and the records that the inputs and the content determine: one file
\* per distinct covering tile, holding the image composed from the content of
\* its four addresses, and the records of the covering tiles, each as many
\* times as the tile is covered, in the order the loop took them.  Nothing in
\* it refers to the order but the arrangement of the records, so every
\* order gives the same files and the same collection of records.
C25_OrderFree ==
    (pc = "returned" /\ StableContent) =>
        LET cov == Covering
        IN  /\ DOMAIN files = {Filename(cov[k]) : k \in 1..Len(cov)}
            /\ \A k \in 1..Len(cov) : files[Filename(cov[k])] = ImageOf(cov[k])
            /\ Len(metadata_file.records) = Len(cov)
            /\ \A k \in 1..Len(cov) :
                    Occurrences(metadata_file.records, RecordOf(cov[k])) =
                    Occurrences(ListRecords, RecordOf(cov[k]))
            /\ metadata_file.records = [k \in 1..Len(cov) |-> RecordOf(cov[order[k]])]

\* A completed run under stable content that took the tiles of two polygons
\* in another order than that of the lists: the polygons have the same base
\* tiles, more than one, and every file was written twice; an address was
\* absent each time it was asked for; and the records are those of the lists
\* in another order.
C25_Witness ==
    /\ pc = "returned"
    /\ StableContent
    /\ Len(polys) = 2
    /\ Len(Covering) = 2 * Cardinality(DOMAIN files)
    /\ Cardinality(DOMAIN files) > 1
    /\ order[1] # 1
    /\ metadata_file.records # ListRecords
    /\ \E n \in 1..Len(outcomes) : outcomes[n] = "absent"

\* ------------------------------------------------------------------- C26
\* How many output tiles the calls made so far have been completed for.
TilesFetched == Len(fetched) \div 4

ResultFor(a) ==
    IF \E n \in (4 * (it - 1) + 1)..Len(fetched) : fetched[n] = a /\ outcomes[n] = "image"
    THEN TileImage(a)
    ELSE NoneImage

\* The subtiles list of the calls made one after the other, each returning
\* what it returned when made at once.
SequentialSubtiles == [i \in 1..4 |-> ResultFor(BlockTile(CurrentTile, i - 1))]

\* C27: fetching the four siblings of an output tile at once is safe.  In
\* whatever order the four calls return, and whichever of them return no
\* image, the list that is stitched holds the result of the call for sibling
\* i at place i, and the stitched image is the one the calls made one after
\* the other give: a call reads its arguments only, and its result goes to
\* the place of its index.
C27_ConcurrentFetch ==
    /\ pc = "stitch" => subtiles = SequentialSubtiles
    /\ pc \in {"save", "record"} =>
        /\ Called = {BlockTile(CurrentTile, i) : i \in 0..3}
        /\ stitched = stitch_tiles(SequentialSubtiles)
        /\ \A i \in 0..3 : \A p \in QuadrantPx(i) :
            stitched.px[p] =
                IF ResultFor(BlockTile(CurrentTile, i)).present
                THEN [src |-> BlockTile(CurrentTile, i),
                      u |-> p[1] % TILE_SIZE, v |-> p[2] % TILE_SIZE]
                ELSE BlankPixel

\* The four calls returned in the reverse of their order in the list, the
\* first and the last to return without an image, and the image is stitched
\* and saved.
C27_Witness ==
    /\ pc = "record"
    /\ fetched = [n \in 1..4 |-> BlockTile(CurrentTile, 4 - n)]
    /\ outcomes = <<"absent", "image", "image", "absent">>
    /\ files[Filename(CurrentTile)] = stitched

\* ------------------------------------------------------------------- C28
\* The places of main inside run_detection_pipeline.
InDetection == {"detections_mkdir", "load_model", "glob", "image", "detection_returned"}

\* download_tiles_pipeline has returned with every image and the metadata
\* file written.
DownloadReturned ==
    /\ pc = "returned"
    /\ exc = "none"
    /\ downloaded = total_tiles
    /\ metadata_file = [written |-> TRUE, records |-> metadata_list]
    /\ \A k \in 1..Len(Covering) : Filename(Covering[k]) \in DOMAIN files

\* C28: the mode gates the two stages of main.  download_tiles_pipeline is
\* called only in the modes download and both, and where main comes to its
\* first condition it is called exactly in these; run_detection_pipeline is
\* entered only in the modes detect and both, and where main comes to its
\* second condition with the tiles directory in place it is entered exactly
\* in these.  In mode both it is entered only when download_tiles_pipeline
\* has returned, every image and the metadata file written, and the images it
\* lists are those of the directory the download wrote to.  "PIPELINE
\* COMPLETE" is logged only when each stage the mode selects has returned
\* normally and no other stage has run.
C28_ModeGating ==
    [][/\ pc' # "not called" => args.mode \in {"download", "both"}
       /\ main_pc = "select_download" =>
            (pc' = "validate" <=> args.mode \in {"download", "both"})
       /\ main_pc' \in InDetection => args.mode \in {"detect", "both"}
       /\ ((main_pc = "select_detection" \/ (main_pc = "download" /\ pc = "returned"))
                /\ main_pc' # main_pc) =>
            (main_pc' = "detections_mkdir" <=> (args.mode \in {"detect", "both"} /\ tiles_dir))
       /\ (main_pc' = "detections_mkdir" /\ args.mode = "both") => DownloadReturned
       /\ (main_pc' = "detections_mkdir" /\ args.mode = "detect") => pc = "not called"
       /\ (main_pc = "glob" /\ args.mode = "both") =>
            /\ DownloadReturned
            /\ \A k \in 1..Len(Covering) :
                \E n \in 1..Len(tile_images') : tile_images'[n] = Filename(Covering[k])
            /\ \A n \in 1..Len(tile_images') : tile_images'[n] \in DOMAIN files
       /\ complete' =>
            /\ status' = 0
            /\ args.mode \in {"download", "both"} => DownloadReturned
            /\ args.mode = "detect" => pc' = "not called"
            /\ args.mode \in {"detect", "both"} =>
                /\ detections_dir'
                /\ model'
                /\ Len(handled') = Len(tile_images')
            /\ args.mode = "download" => (~detections_dir' /\ ~model' /\ handled' = <<>>)]_vars

\* Mode both has run to "PIPELINE COMPLETE": the download wrote its images
\* into a directory that held others, and the detection, entered after it,
\* took them all and annotated one of the new ones.
C28_Witness ==
    /\ complete
    /\ args.mode = "both"
    /\ DownloadReturned
    /\ Len(Covering) > 1
    /\ Len(tile_images) > Len(Covering)
    /\ Len(handled) = Len(tile_images)
    /\ \E k \in 1..Len(Covering) : Filename(Covering[k]) \in DOMAIN detections

\* ------------------------------------------------------------------- C29
\* Nothing fetched, no stage entered, no directory made and no model loaded.
NoWork ==
    /\ pc = "not called"
    /\ fetched = <<>>
    /\ ~detections_dir
    /\ ~model
    /\ handled = <<>>

\* An option of the detection stage is missing in a mode that runs it.
CredentialMissing ==
    args.mode \in {"detect", "both"} /\ (~args.roboflow_api_key \/ ~args.roboflow_model)

\* The geojson path is missing in a mode that runs the download.
GeojsonMissing == args.mode \in {"download", "both"} /\ ~args.geojson

\* What C29 says of the geojson path, of the tiles directory and of mode
\* download: a missing geojson path in the modes download and both is
\* rejected in argument parsing, before any work; in mode detect a tiles
\* directory that is not there ends the process with status 1, the
\* detections directory not made and the model not loaded; in mode download
\* neither credential is asked for.
PathChecks ==
    /\ GeojsonMissing => (main_pc = "exited" /\ status # 0 /\ NoWork)
    /\ (args.mode = "detect" /\ ~CredentialMissing /\ ~tiles_dir
            /\ main_pc \notin {"select_download", "select_detection"}) =>
            (main_pc = "exited" /\ status = 1 /\ NoWork)
    /\ (args.mode = "download" /\ args.geojson) => ~(main_pc = "exited" /\ pc = "not called")

Annotated == {k \in 1..Len(handled) : handled[k].outcome \in {"clean", "detected", "unwritten"}}

\* C30: run_detection_pipeline ends the process with status 1 when the
\* model does not load, no image read; once it is loaded, an image that
\* cannot be read, or an exception of the inference, of the annotation or of
\* the saving of one image, passes over that image alone, and the loop goes
\* on with the next image in sorted filename order; processed counts the
\* images whose body ran to its end without an exception, so that it lies
\* between 0 and the number of .jpg files; and with no .jpg file the
\* pipeline returns with nothing processed.
C30_PerImageFailures ==
    [][/\ main_pc = "load_model" =>
            IF model' THEN main_pc' = "glob" /\ status' = status
            ELSE main_pc' = "exited" /\ status' = 1
       /\ ~model' => (tile_images' = <<>> /\ handled' = <<>> /\ processed' = 0)
       /\ main_pc = "glob" =>
            /\ Len(tile_images') = Cardinality(JpgNames(files))
            /\ \A n \in 1..Len(tile_images') : tile_images'[n] \in JpgNames(files)
            /\ \A m, n \in 1..Len(tile_images') :
                m < n => StrLess(tile_images'[m], tile_images'[n])
            /\ JpgNames(files) = {} => main_pc' = "detection_returned"
       /\ handled' # handled =>
            /\ Len(handled') = Len(handled) + 1
            /\ handled'[Len(handled')].filename = tile_images[Len(handled')]
            /\ status' = status
            /\ main_pc' = IF Len(handled') < Len(tile_images) THEN "image"
                          ELSE "detection_returned"
       /\ processed' = Cardinality({k \in 1..Len(handled') :
                            handled'[k].outcome \in {"clean", "detected", "unwritten"}})
       /\ 0 <= processed' /\ processed' <= Len(tile_images')
       /\ \A name \in DOMAIN detections' :
            \E k \in 1..Len(handled') :
                handled'[k].filename = name /\ handled'[k].outcome \in {"clean", "detected"}
       /\ (main_pc' = "detection_returned" /\ tile_images' = <<>>) =>
            (handled' = <<>> /\ processed' = 0 /\ detections' = <<>>)]_vars

\* The detection has returned from three images: the first could not be
\* read, the inference of the second raised, and the third, taken all the
\* same, was annotated and saved; processed stands at one.
C30_Witness ==
    /\ main_pc = "done"
    /\ Len(tile_images) = 3
    /\ handled[1].outcome = "unreadable"
    /\ handled[2].outcome = "infer_raised"
    /\ handled[3].outcome = "clean"
    /\ processed = 1
    /\ DOMAIN detections = {tile_images[3]}

====
